---- MODULE Spec2Model ----
(***************************************************************************)
(* Model of create_annotations.py: the blood volume / pressure annotator.  *)
(*                                                                         *)
(* Representation.  A string the program inspects is a sequence of tokens, *)
(* each token a "." or a maximal run of other characters:                  *)
(* "lv.blood.volume" is <<"lv", ".", "blood", ".", "volume">>, "" is <<>>. *)
(* No two runs are adjacent, so two token sequences are the same string    *)
(* exactly when they are equal, and a suffix that starts with "." is a     *)
(* suffix of the string exactly when its tokens end the token sequence.    *)
(* A URI is a record [ns, name, n]: the namespace, the text after it as a  *)
(* token sequence, and the number formatted into it (0 when there is       *)
(* none).  A triple is <<subject, predicate, object>> and a graph a set of *)
(* triples.                                                                *)
(***************************************************************************)
EXTENDS Integers, Sequences, FiniteSets, TLC

VARIABLES
    graph,              \* rdf_graph / g: the set of triples
    LOCAL_ID_COUNTER,   \* module global _LOCAL_ID_COUNTER
    stdout,             \* what print() wrote, in order
    pc,                 \* position of the driver
    attributes,         \* get_model_ids: extracted attribute values
    idx,                \* loop index of the loop pc is in
    volume_ids, pressure_ids, flow_ids,
    run,                \* 1 for the first run of __main__, 2 for the re-run
    first,              \* result of the first run, kept for comparison
    start,              \* value of the counter when the current run started
    call,               \* record of the most recent API call
    annotated,          \* model IDs annotated into graph so far
    minted,             \* identifiers minted so far, in order
    ncalls              \* number of API calls made

vars == <<graph, LOCAL_ID_COUNTER, stdout, pc, attributes, idx, volume_ids,
          pressure_ids, flow_ids, run, first, start, call, annotated, minted,
          ncalls>>

mainVars == <<pc, attributes, idx, volume_ids, pressure_ids, flow_ids, run,
              first, start>>

----------------------------------------------------------------------------
(* Bounds *)

MaxCalls == 4       \* API calls per behaviour, from an empty graph
MaxAnyCalls == 3    \* API calls per behaviour, from a pre-existing graph
MaxAttrs == 3       \* attribute values in the model document

----------------------------------------------------------------------------
(* Namespaces and fixed terms *)

URIRef(ns, name, n) == [ns |-> ns, name |-> name, n |-> n]

OMEXlib(name) == URIRef("OMEXlib", name, 0)
LOCAL_NS(ref) == URIRef("local", ref.name, ref.n)
BQBIOL(name) == URIRef("bqbiol", <<name>>, 0)
UBERON(code) == URIRef("UBERON", <<code>>, 0)
OPB(name) == URIRef("OPB", <<name>>, 0)

VOLUME_URI == OPB("OPB_00154")
PRESSURE_URI_same_as_volume == OPB("OPB_00154")
PRESSURE_URI == OPB("OPB_00509")
BLOOD_URI == UBERON("0000178")

InitialCounter == 1024

cellml_file == "models/cvs-model.cellml"

----------------------------------------------------------------------------
(* _get_local_id: advance the global counter, format it into a name.  The  *)
(* result carries the new counter value with the returned reference.       *)

get_local_id_no_increment(counter) ==
    [counter |-> counter,
     ret |-> [name |-> <<"local-node-">>, n |-> counter + 1]]

get_local_id(counter) ==
    [counter |-> counter + 1,
     ret |-> [name |-> <<"local-node-">>, n |-> counter + 1]]

----------------------------------------------------------------------------
(* get_model_ids: suffix classification *)

\* value.endswith(suffix), for a suffix that starts with "."
endswith(value, suffix) ==
    /\ Len(value) >= Len(suffix)
    /\ SubSeq(value, Len(value) - Len(suffix) + 1, Len(value)) = suffix

classify_last_segment_only(value) ==
    IF value[Len(value)] = "volume" THEN "volume"
    ELSE IF value[Len(value)] = "pressure" THEN "pressure"
    ELSE IF value[Len(value)] = "flow" THEN "flow"
    ELSE "unknown"

\* the if / elif chain of the loop body
classify(value) ==
    IF endswith(value, <<".", "blood", ".", "volume">>) THEN "volume"
    ELSE IF endswith(value, <<".", "blood", ".", "pressure">>) THEN "pressure"
    ELSE IF endswith(value, <<".", "blood", ".", "flow">>) THEN "flow"
    ELSE "unknown"

UnknownId(value) == [msg |-> "Unknown ID: ", arg |-> value]

----------------------------------------------------------------------------
(* map_to_uberon_cavity *)

cavity_map ==
    [a \in {"lv", "rv", "la", "ra", "pa", "lung", "pulm-vein", "brain",
            "brain-vein", "aa", "celiac", "sup-mes", "stomach", "spleen",
            "pancreas", "intestine", "colon", "portal-vein", "liver"} |->
        CASE a = "lv" -> "0016514"
          [] a = "rv" -> "0016509"
          [] a = "la" -> "0016513"
          [] a = "ra" -> "0016522"
          [] a = "pa" -> "0002012"
          [] a = "lung" -> "0000102"
          [] a = "pulm-vein" -> "0002016"
          [] a = "brain" -> "0008998"
          [] a = "brain-vein" -> "2005031"
          [] a = "aa" -> "0001496"
          [] a = "celiac" -> "0001640"
          [] a = "sup-mes" -> "0001182"
          [] a = "stomach" -> "0000945"
          [] a = "spleen" -> "0036301"
          [] a = "pancreas" -> "0001264"
          [] a = "intestine" -> "0000160"
          [] a = "colon" -> "0001155"
          [] a = "portal-vein" -> "0002017"
          [] a = "liver" -> "0006877"]

UnknownCavity(cavity_abbr) ==
    [msg |-> "Unknown cavity abbreviation: ", arg |-> <<cavity_abbr>>]

\* a resolver that names the fallback location after the abbreviation
map_to_uberon_cavity_per_abbr(cavity_abbr) ==
    IF cavity_abbr \in DOMAIN cavity_map
    THEN [ret |-> UBERON(cavity_map[cavity_abbr]), out |-> <<>>]
    ELSE [ret |-> UBERON(cavity_abbr), out |-> <<UnknownCavity(cavity_abbr)>>]

\* a resolver that warns on every lookup
map_to_uberon_cavity_always_warns(cavity_abbr) ==
    IF cavity_abbr \in DOMAIN cavity_map
    THEN [ret |-> UBERON(cavity_map[cavity_abbr]),
          out |-> <<UnknownCavity(cavity_abbr)>>]
    ELSE [ret |-> UBERON("0001062"), out |-> <<UnknownCavity(cavity_abbr)>>]

\* ret: the returned URI; out: what the call printed
map_to_uberon_cavity(cavity_abbr) ==
    IF cavity_abbr \in DOMAIN cavity_map
    THEN [ret |-> UBERON(cavity_map[cavity_abbr]), out |-> <<>>]
    ELSE [ret |-> UBERON("0001062"), out |-> <<UnknownCavity(cavity_abbr)>>]

----------------------------------------------------------------------------
(* create_local_blood_cavity_definition *)

query_never_matches(rdf_graph, predicate, object) == {}

query_any_object(rdf_graph, predicate, object) ==
    {t[1] : t \in {u \in rdf_graph : u[2] = predicate}}

query_unbound(rdf_graph, predicate, object) ==
    {t[1] : t \in rdf_graph}

\* SELECT ?subject WHERE { ?subject ?predicate ?object } with predicate and
\* object bound: the subjects of the triples with that predicate and object.
query(rdf_graph, predicate, object) ==
    {t[1] : t \in {u \in rdf_graph : u[2] = predicate /\ u[3] = object}}

\* a deduplicator without the early return on a found row
create_definition_always_mints(rdf_graph, counter, cavity_uri) ==
    LET id == get_local_id(counter)
        local_node == LOCAL_NS(id.ret)
    IN  {[ret |-> local_node,
          graph |-> rdf_graph \cup
              {<<local_node, BQBIOL("is"), BLOOD_URI>>,
               <<local_node, BQBIOL("isPartOf"), cavity_uri>>},
          counter |-> id.counter,
          minted |-> TRUE]}

\* The outcomes of one call: the first row of the result is returned, and the
\* store fixes no order on rows, so any matching subject may be the one.
create_local_blood_cavity_definition(rdf_graph, counter, cavity_uri) ==
    LET results == query(rdf_graph, BQBIOL("isPartOf"), cavity_uri)
        id == get_local_id(counter)
        local_node == LOCAL_NS(id.ret)
    IN  IF results # {}
        THEN {[ret |-> subject, graph |-> rdf_graph, counter |-> counter,
               minted |-> FALSE] : subject \in results}
        ELSE {[ret |-> local_node,
               graph |-> rdf_graph \cup
                   {<<local_node, BQBIOL("is"), BLOOD_URI>>,
                    <<local_node, BQBIOL("isPartOf"), cavity_uri>>},
               counter |-> id.counter,
               minted |-> TRUE]}

----------------------------------------------------------------------------
(* create_blood_volume_annotation / create_blood_pressure_annotation *)

\* str.split('.'): the pieces between the dots, "" for an empty piece
RECURSIVE split(_)
split(str) ==
    LET dots == {i \in DOMAIN str : str[i] = "."}
    IN  IF dots = {}
        THEN IF str = <<>> THEN <<"">> ELSE <<str[1]>>
        ELSE LET i == CHOOSE d \in dots : \A e \in dots : d <= e
             IN  <<IF i = 1 THEN "" ELSE str[1]>>
                     \o split(SubSeq(str, i + 1, Len(str)))

\* The outcomes of one emitter call with quantity-kind term `term`.  adds
\* lists the triples the emitter itself passes to rdf_graph.add.
emit(rdf_graph, counter, model, model_id, term) ==
    LET model_uri == OMEXlib(<<model, "#">> \o model_id)
        cavity == split(model_id)[1]
        resolved == map_to_uberon_cavity(cavity)
        cavity_uri == resolved.ret
    IN  {[graph |-> d.graph \cup
                    {<<model_uri, BQBIOL("isPropertyOf"), d.ret>>,
                     <<model_uri, BQBIOL("isVersionOf"), term>>},
          counter |-> d.counter,
          out |-> resolved.out,
          model_uri |-> model_uri,
          cavity |-> cavity,
          cavity_uri |-> cavity_uri,
          local_node |-> d.ret,
          minted |-> d.minted,
          adds |-> <<<<model_uri, BQBIOL("isPropertyOf"), d.ret>>,
                     <<model_uri, BQBIOL("isVersionOf"), term>>>>] :
         d \in create_local_blood_cavity_definition(rdf_graph, counter,
                                                    cavity_uri)}

create_blood_volume_annotation(rdf_graph, counter, model, model_id) ==
    emit(rdf_graph, counter, model, model_id, VOLUME_URI)

create_blood_pressure_annotation(rdf_graph, counter, model, model_id) ==
    emit(rdf_graph, counter, model, model_id, PRESSURE_URI)

----------------------------------------------------------------------------
(* Inputs *)

Id(cavity, kind) == <<cavity, ".", "blood", ".", kind>>

\* model IDs handed to the emitters
ModelIds ==
    {Id("lv", "volume"), Id("lv", "pressure"), Id("rv", "volume"),
     Id("unknown-cavity", "volume"), Id("foo", "pressure"), <<"lv">>}

\* attribute values found in the model document
AttrValues ==
    {Id("lv", "volume"), Id("lv", "pressure"), Id("rv", "pressure"),
     Id("unknown-cavity", "volume"), Id("lv", "flow"),
     <<".", "blood", ".", "volume">>, <<"lv", ".", "volume">>,
     <<"blood", ".", "pressure">>}

RECURSIVE SeqsUpTo(_, _)
SeqsUpTo(S, n) ==
    IF n = 0 THEN {<<>>}
    ELSE LET shorter == SeqsUpTo(S, n - 1)
         IN  shorter \cup {Append(q, x) : q \in shorter, x \in S}

\* locations handed to the deduplicator directly
CavityUris == {UBERON("0016514"), UBERON("0016509"), UBERON("0001062")}

\* triples a graph handed to the API may already hold: an organ that is part
\* of the left ventricle space without being blood, and a blood entity that
\* is part of it
Organ == OMEXlib(<<"heart-wall">>)
OtherBlood == OMEXlib(<<"blood-1">>)
PreTriples ==
    {<<Organ, BQBIOL("isPartOf"), UBERON("0016514")>>,
     <<OtherBlood, BQBIOL("is"), BLOOD_URI>>,
     <<OtherBlood, BQBIOL("isPartOf"), UBERON("0016514")>>}

NoCall ==
    [op |-> "none", model_id |-> <<>>, model_uri |-> OMEXlib(<<>>),
     cavity |-> "", cavity_uri |-> UBERON(""), local_node |-> OMEXlib(<<>>),
     minted |-> FALSE, adds |-> <<>>, out |-> <<>>, pre |-> {},
     counter |-> 0]

----------------------------------------------------------------------------
(* Initial states *)

InitCommon ==
    /\ LOCAL_ID_COUNTER = InitialCounter
    /\ stdout = <<>>
    /\ idx = 1
    /\ volume_ids = <<>>
    /\ pressure_ids = <<>>
    /\ flow_ids = <<>>
    /\ run = 1
    /\ first = [graph |-> {}, start |-> InitialCounter]
    /\ start = InitialCounter
    /\ call = NoCall
    /\ annotated = {}
    /\ minted = <<>>
    /\ ncalls = 0

\* the API used on a new Graph()
Init ==
    /\ InitCommon
    /\ graph = {}
    /\ pc = "api"
    /\ attributes = <<>>

\* the API used on a graph that already holds triples
InitAny ==
    /\ InitCommon
    /\ graph \in SUBSET PreTriples
    /\ pc = "any"
    /\ attributes = <<>>

\* __main__ after the model file was read and parsed
InitMain ==
    /\ InitCommon
    /\ graph = {}
    /\ pc = "extract"
    /\ attributes \in SeqsUpTo(AttrValues, MaxAttrs)

----------------------------------------------------------------------------
(* Actions *)

\* one call of an emitter on the graph
Annotate(kind, model_id) ==
    \E r \in (IF kind = "volume"
              THEN create_blood_volume_annotation(graph, LOCAL_ID_COUNTER,
                                                  cellml_file, model_id)
              ELSE create_blood_pressure_annotation(graph, LOCAL_ID_COUNTER,
                                                    cellml_file, model_id)) :
        /\ graph' = r.graph
        /\ LOCAL_ID_COUNTER' = r.counter
        /\ stdout' = stdout \o r.out
        /\ call' = [op |-> kind, model_id |-> model_id,
                    model_uri |-> r.model_uri, cavity |-> r.cavity,
                    cavity_uri |-> r.cavity_uri, local_node |-> r.local_node,
                    minted |-> r.minted, adds |-> r.adds, out |-> r.out,
                    pre |-> graph, counter |-> LOCAL_ID_COUNTER]
        /\ annotated' = annotated \cup {model_id}
        /\ minted' = IF r.minted THEN Append(minted, r.local_node) ELSE minted
        /\ ncalls' = ncalls + 1

Bound == IF pc = "api" THEN MaxCalls ELSE MaxAnyCalls

CallVolume ==
    /\ pc \in {"api", "any"}
    /\ ncalls < Bound
    /\ \E model_id \in ModelIds : Annotate("volume", model_id)
    /\ UNCHANGED mainVars

CallPressure ==
    /\ pc \in {"api", "any"}
    /\ ncalls < Bound
    /\ \E model_id \in ModelIds : Annotate("pressure", model_id)
    /\ UNCHANGED mainVars

\* create_local_blood_cavity_definition called on its own
CallDefinition ==
    /\ pc = "any"
    /\ ncalls < Bound
    /\ \E cavity_uri \in CavityUris :
         \E d \in create_local_blood_cavity_definition(graph, LOCAL_ID_COUNTER,
                                                       cavity_uri) :
            /\ graph' = d.graph
            /\ LOCAL_ID_COUNTER' = d.counter
            /\ call' = [NoCall EXCEPT !.op = "definition",
                                      !.cavity_uri = cavity_uri,
                                      !.local_node = d.ret,
                                      !.minted = d.minted,
                                      !.pre = graph,
                                      !.counter = LOCAL_ID_COUNTER]
            /\ minted' = IF d.minted THEN Append(minted, d.ret) ELSE minted
    /\ ncalls' = ncalls + 1
    /\ UNCHANGED <<stdout, annotated>>
    /\ UNCHANGED mainVars

\* get_model_ids: one iteration of the classification loop
GetModelIdsLoop ==
    /\ pc = "extract"
    /\ idx <= Len(attributes)
    /\ LET value == attributes[idx]
           bucket == classify(value)
       IN  /\ volume_ids' = IF bucket = "volume"
                            THEN Append(volume_ids, value) ELSE volume_ids
           /\ pressure_ids' = IF bucket = "pressure"
                              THEN Append(pressure_ids, value)
                              ELSE pressure_ids
           /\ flow_ids' = IF bucket = "flow"
                          THEN Append(flow_ids, value) ELSE flow_ids
           /\ stdout' = IF bucket = "unknown"
                        THEN Append(stdout, UnknownId(value)) ELSE stdout
    /\ idx' = idx + 1
    /\ UNCHANGED <<graph, LOCAL_ID_COUNTER, pc, attributes, run, first, start,
                   call, annotated, minted, ncalls>>

\* get_model_ids returns; __main__ makes the graph and enters the volume loop
GetModelIdsReturn ==
    /\ pc = "extract"
    /\ idx > Len(attributes)
    /\ pc' = "volumes"
    /\ idx' = 1
    /\ graph' = {}
    /\ UNCHANGED <<LOCAL_ID_COUNTER, stdout, attributes, volume_ids,
                   pressure_ids, flow_ids, run, first, start, call, annotated,
                   minted, ncalls>>

ForVolume ==
    /\ pc = "volumes"
    /\ idx <= Len(volume_ids)
    /\ Annotate("volume", volume_ids[idx])
    /\ idx' = idx + 1
    /\ UNCHANGED <<pc, attributes, volume_ids, pressure_ids, flow_ids, run,
                   first, start>>

ForVolumeEnd ==
    /\ pc = "volumes"
    /\ idx > Len(volume_ids)
    /\ pc' = "pressures"
    /\ idx' = 1
    /\ UNCHANGED <<graph, LOCAL_ID_COUNTER, stdout, attributes, volume_ids,
                   pressure_ids, flow_ids, run, first, start, call, annotated,
                   minted, ncalls>>

ForPressure ==
    /\ pc = "pressures"
    /\ idx <= Len(pressure_ids)
    /\ Annotate("pressure", pressure_ids[idx])
    /\ idx' = idx + 1
    /\ UNCHANGED <<pc, attributes, volume_ids, pressure_ids, flow_ids, run,
                   first, start>>

\* the pressure loop ends and the graph is serialized
ForPressureEnd ==
    /\ pc = "pressures"
    /\ idx > Len(pressure_ids)
    /\ pc' = "done"
    /\ UNCHANGED <<graph, LOCAL_ID_COUNTER, stdout, attributes, idx,
                   volume_ids, pressure_ids, flow_ids, run, first, start,
                   call, annotated, minted, ncalls>>

\* the script is run again on the unchanged model file: in a new process
\* the counter is back at its initial value, in the same process it stays
Rerun ==
    /\ pc = "done"
    /\ run = 1
    /\ run' = 2
    /\ first' = [graph |-> graph, start |-> start]
    /\ \E c \in {InitialCounter, LOCAL_ID_COUNTER} :
         /\ LOCAL_ID_COUNTER' = c
         /\ start' = c
    /\ pc' = "extract"
    /\ idx' = 1
    /\ graph' = {}
    /\ stdout' = <<>>
    /\ volume_ids' = <<>>
    /\ pressure_ids' = <<>>
    /\ flow_ids' = <<>>
    /\ annotated' = {}
    /\ call' = NoCall
    /\ UNCHANGED <<attributes, minted, ncalls>>

----------------------------------------------------------------------------
(* Specifications *)

Next == CallVolume \/ CallPressure

Spec == Init /\ [][Next]_vars

NextAny == CallVolume \/ CallPressure \/ CallDefinition

SpecAny == InitAny /\ [][NextAny]_vars

NextMain ==
    \/ GetModelIdsLoop
    \/ GetModelIdsReturn
    \/ ForVolume
    \/ ForVolumeEnd
    \/ ForPressure
    \/ ForPressureEnd
    \/ Rerun

SpecMain == InitMain /\ [][NextMain]_vars

----------------------------------------------------------------------------
(* Vocabulary of the properties *)

isQ == BQBIOL("is")
isPartOf == BQBIOL("isPartOf")
isPropertyOf == BQBIOL("isPropertyOf")
isVersionOf == BQBIOL("isVersionOf")

Blood == UBERON("0000178")
Fallback == UBERON("0001062")
VolumeTerm == OPB("OPB_00154")
PressureTerm == OPB("OPB_00509")

Subjects(g) == {t[1] : t \in g}

\* n is marked "is blood, part of L" in g
BloodPartOf(g, n, L) == <<n, isQ, Blood>> \in g /\ <<n, isPartOf, L>> \in g

BloodEntities(g, L) == {n \in Subjects(g) : BloodPartOf(g, n, L)}

LocalEntities(g) == {n \in Subjects(g) : n.ns = "local"}

PartOfLocations(g) == {t[3] : t \in {u \in g : u[2] = isPartOf}}

ModelVariable(model_id) == OMEXlib(<<cellml_file, "#">> \o model_id)

PropertyTargets(g, model_id) ==
    {t[3] : t \in {u \in g : u[1] = ModelVariable(model_id)
                             /\ u[2] = isPropertyOf}}

\* the text of a model ID before its first dot
CavityOf(model_id) ==
    IF model_id = <<>> \/ model_id[1] = "." THEN "" ELSE model_id[1]

\* the location the cavity abbreviation of a model ID stands for
ResolvedLocation(model_id) ==
    IF CavityOf(model_id) \in DOMAIN cavity_map
    THEN UBERON(cavity_map[CavityOf(model_id)])
    ELSE Fallback

Emitted == call.op \in {"volume", "pressure"}

----------------------------------------------------------------------------
(* C1: from an empty graph, after any sequence of emitter calls, no        *)
(* location has two distinct entities that are both "is blood" and         *)
(* "isPartOf" that location.                                               *)
C1_AtMostOneEntityPerLocation ==
    \A L \in PartOfLocations(graph) : Cardinality(BloodEntities(graph, L)) <= 1

\* a third variable was attached to an entity made earlier
C1_Witness ==
    /\ Emitted
    /\ ~call.minted
    /\ Cardinality(annotated) >= 3
    /\ Cardinality(BloodEntities(graph, call.cavity_uri)) = 1

(* C2: two different model variables resolving to the same location leave  *)
(* exactly one blood entity for that location, and the isPropertyOf        *)
(* triples of both variables have that entity as object.                   *)
C2_SameLocationSharesEntity ==
    \A a \in annotated : \A b \in annotated :
        (a # b /\ ResolvedLocation(a) = ResolvedLocation(b)) =>
            LET E == BloodEntities(graph, ResolvedLocation(a))
            IN  /\ Cardinality(E) = 1
                /\ PropertyTargets(graph, a) = E
                /\ PropertyTargets(graph, b) = E

C2_Witness ==
    /\ {Id("lv", "volume"), Id("lv", "pressure")} \subseteq annotated
    /\ PropertyTargets(graph, Id("lv", "volume")) # {}
    /\ PropertyTargets(graph, Id("lv", "volume"))
         = PropertyTargets(graph, Id("lv", "pressure"))

(* C3: variables resolving to two distinct locations get two distinct      *)
(* local entities, each with its own (is, blood) and (isPartOf, location)  *)
(* pair.                                                                   *)
C3_DistinctLocationsDistinctEntities ==
    \A a \in annotated : \A b \in annotated :
        ResolvedLocation(a) # ResolvedLocation(b) =>
            \E ea \in PropertyTargets(graph, a) :
            \E eb \in PropertyTargets(graph, b) :
                /\ ea # eb
                /\ ea.ns = "local" /\ eb.ns = "local"
                /\ BloodPartOf(graph, ea, ResolvedLocation(a))
                /\ BloodPartOf(graph, eb, ResolvedLocation(b))
                /\ <<ea, isPartOf, ResolvedLocation(b)>> \notin graph
                /\ <<eb, isPartOf, ResolvedLocation(a)>> \notin graph

C3_Witness ==
    /\ {Id("lv", "volume"), Id("rv", "volume")} \subseteq annotated
    /\ Cardinality(LocalEntities(graph)) >= 2

EndsVolume(v) == endswith(v, <<".", "blood", ".", "volume">>)
EndsPressure(v) == endswith(v, <<".", "blood", ".", "pressure">>)
EndsFlow(v) == endswith(v, <<".", "blood", ".", "flow">>)
EndsNone(v) == ~EndsVolume(v) /\ ~EndsPressure(v) /\ ~EndsFlow(v)
IsUnknownId(line) == line.msg = "Unknown ID: "

Range(q) == {q[i] : i \in DOMAIN q}

C5_Classification ==
    pc # "extract" =>
        LET dropped == SelectSeq(attributes, EndsNone)
            printed == SelectSeq(stdout, IsUnknownId)
        IN  /\ volume_ids = SelectSeq(attributes, EndsVolume)
            /\ pressure_ids = SelectSeq(attributes, EndsPressure)
            /\ flow_ids = SelectSeq(attributes, EndsFlow)
            /\ Range(volume_ids) \cap Range(pressure_ids) = {}
            /\ Range(volume_ids) \cap Range(flow_ids) = {}
            /\ Range(pressure_ids) \cap Range(flow_ids) = {}
            /\ Range(dropped) \cap (Range(volume_ids) \cup Range(pressure_ids)
                                    \cup Range(flow_ids)) = {}
            /\ printed = [i \in DOMAIN dropped |-> UnknownId(dropped[i])]

\* a document with a volume, a pressure or flow value and a dropped value
C5_Witness ==
    /\ pc = "done"
    /\ Len(volume_ids) >= 1
    /\ Len(pressure_ids) + Len(flow_ids) >= 1
    /\ Len(SelectSeq(stdout, IsUnknownId)) >= 1

(* C6: for an abbreviation in the cavity table the resolver returns the    *)
(* code of the table and prints nothing; for any other it returns the      *)
(* fallback UBERON 0001062, prints one warning and does not fail: the      *)
(* emitter that called it completes and its triples are in the graph.      *)
C6_ResolverFallback ==
    Emitted =>
        /\ call.cavity = CavityOf(call.model_id)
        /\ IF call.cavity \in DOMAIN cavity_map
           THEN /\ call.cavity_uri = UBERON(cavity_map[call.cavity])
                /\ call.cavity = "lv" => call.cavity_uri = UBERON("0016514")
                /\ call.cavity = "rv" => call.cavity_uri = UBERON("0016509")
                /\ call.out = <<>>
           ELSE /\ call.cavity_uri = Fallback
                /\ call.out = <<UnknownCavity(call.cavity)>>
        /\ Len(stdout) >= Len(call.out)
        /\ SubSeq(stdout, Len(stdout) - Len(call.out) + 1, Len(stdout))
             = call.out
        /\ Range(call.adds) \subseteq graph
        /\ PropertyTargets(graph, call.model_id) # {}

\* an unknown abbreviation was resolved after a known one
C6_Witness ==
    /\ Emitted
    /\ call.cavity \notin DOMAIN cavity_map
    /\ Len(stdout) = 1
    /\ \E m \in annotated : CavityOf(m) \in DOMAIN cavity_map

(* C7: create_local_blood_cavity_definition returns an existing node       *)
(* without minting only when that node is both (is, blood) and             *)
(* (isPartOf, L) in the graph it was given; when no node is both, it mints *)
(* a new local entity.                                                     *)
C7_ReuseOnlyBloodPartOf ==
    call.op # "none" =>
        /\ ~call.minted =>
              BloodPartOf(call.pre, call.local_node, call.cavity_uri)
        /\ BloodEntities(call.pre, call.cavity_uri) = {} => call.minted

(* C8: the counter never decreases and is never reset; it advances exactly *)
(* in the steps that mint a new entity, not in those that reuse one; every *)
(* minted identifier number is above 1024 and none is minted twice.        *)
C8_MintedIds ==
    /\ LOCAL_ID_COUNTER >= 1024
    /\ \A i \in DOMAIN minted : minted[i].n > 1024
    /\ \A i \in DOMAIN minted : \A j \in DOMAIN minted :
          i # j => minted[i] # minted[j]

C8_CounterStep ==
    /\ LOCAL_ID_COUNTER' >= LOCAL_ID_COUNTER
    /\ (LOCAL_ID_COUNTER' > LOCAL_ID_COUNTER) <=> (Len(minted') > Len(minted))
    /\ (LOCAL_ID_COUNTER' > LOCAL_ID_COUNTER)
          <=> (\E t \in graph' \ graph : t[2] = isPartOf)
    /\ (ncalls' > ncalls /\ ~call'.minted)
          => LOCAL_ID_COUNTER' = LOCAL_ID_COUNTER

C8_CounterMonotone == [][C8_CounterStep]_vars /\ []C8_MintedIds

\* two entities were minted, then one was reused
C8_Witness ==
    /\ Len(minted) >= 2
    /\ call.op # "none"
    /\ ~call.minted
    /\ LOCAL_ID_COUNTER = InitialCounter + Len(minted)

(* C9: two runs of the pipeline on the same IDs, each from an empty graph  *)
(* and from whatever value the counter has, end with the same triples up   *)
(* to a renaming of the local identifiers, whichever matching subject the  *)
(* deduplicator's query returned.                                          *)
RenameNode(node, shift) ==
    IF node.ns = "local" THEN [node EXCEPT !.n = node.n + shift] ELSE node

Rename(g, shift) ==
    {<<RenameNode(t[1], shift), t[2], RenameNode(t[3], shift)>> : t \in g}

C9_Deterministic ==
    (pc = "done" /\ run = 2) => graph = Rename(first.graph, start - first.start)

\* the re-run started from another counter value, minted two entities and
\* reused one
C9_Witness ==
    /\ pc = "done"
    /\ run = 2
    /\ start # first.start
    /\ Cardinality(LocalEntities(graph)) >= 2
    /\ Cardinality(annotated) >= 3

(* C10: every model variable whose abbreviation is not in the cavity table *)
(* is attached to one shared local entity, the one that is part of the     *)
(* fallback location, and the graph has as many local entities as there    *)
(* are distinct resolved locations among the annotated IDs.                *)
C10_UnknownsShareFallbackEntity ==
    /\ \A a \in annotated :
          CavityOf(a) \notin DOMAIN cavity_map =>
              /\ PropertyTargets(graph, a) = BloodEntities(graph, Fallback)
              /\ Cardinality(BloodEntities(graph, Fallback)) = 1
    /\ Cardinality(LocalEntities(graph))
          = Cardinality({ResolvedLocation(a) : a \in annotated})

\* two different unknown abbreviations and a known one
C10_Witness ==
    /\ {Id("unknown-cavity", "volume"), Id("foo", "pressure"),
        Id("lv", "volume")} \subseteq annotated
    /\ Cardinality(LocalEntities(graph)) = 2

====
